---- MODULE Spec2Model ----
(***************************************************************************)
(* Marinus: the mirror run of send_remote_server.py and the retrying       *)
(* query wrappers of libs3/RemoteMongoConnector.py.                        *)
(*                                                                         *)
(* A document is a function from field names to values, the "_id" field    *)
(* included.  A collection is the sequence of its documents in natural     *)
(* (insertion) order.  A query is a function from field names to values;   *)
(* the empty function <<>> is the query {}.                                *)
(***************************************************************************)
EXTENDS Integers, Sequences, FiniteSets, TLC

\* ------------------------------------------------------------------ bounds
\* Number of zone names the primary Zone collection may hold.
MaxZones == 2
\* Largest number of documents a full-replace source collection holds.
MaxDocs == 2
\* Number of writes the unrelated collector processes perform during a run.
MaxWrites == 1
\* Number of distinct answers the store can give to one driver call.
NumResults == 2
\* Number of perform_* calls a caller makes one after another.
MaxCalls == 2
\* Largest number of invocations of the script in a row.
MaxRuns == 2
\* Largest number of chunks of the local file of write_large_file.
MaxChunks == 5

\* ---------------------------------------------------------------- variables
VARIABLES
    argv,        \* the step flags given on the command line (sys.argv[1:])
    pc,          \* position of main(): a stage name or the collection being mirrored
    phase,       \* position inside the current update_* function
    cursor,      \* documents the open cursor has fetched and not yet yielded
    zone_list,   \* main's zone_list (update_zones' return value)
    zidx,        \* index of update_all_dns' loop variable in zone_list
    primary,     \* primary store: collection name -> documents
    remote,      \* remote store: collection name -> documents
    exc,         \* the exception that ended the run ("none" while there is none)
    failedOp,    \* "read"/"write": the kind of store call that raised exc
    exitStatus,  \* process exit status (-1 while the process runs)
    nextOid,     \* next ObjectId the driver generates for an inserted document
    remote0,     \* history: the remote store before the run
    fetched,     \* history: what the current cursor read from the primary
    doneZones,   \* history: zones whose DNS iteration has completed
    nReads,      \* history: reads issued per primary collection
    nWrites,     \* history: remove/insert calls issued per remote collection
    jobStarts,   \* history: record_job_start calls
    jobCompletes,\* history: record_job_complete calls
    writesLeft,  \* writes the collector processes may still perform
    done,        \* history: collections whose update function has returned
    dirty,       \* history: sources a collector wrote once their mirroring had begun
    m_connection,\* RemoteMongoConnector.m_connection ("None" until a client is made)
    configRead,  \* history: how config.read(connector.config) went
    log,         \* history: the store calls the run has issued, in order
    mirrored,    \* history: what each completed DNS iteration read, in order
    written,     \* history: primary collections a collector has written
    runNo,       \* which invocation of the script is running
    remoteAfter1,\* history: the remote store when the first invocation completed
    order,       \* the order in which main calls the update_* functions
    \* --- one RemoteMongoConnector.perform_* call after another
    xpc,         \* "idle", "loop" (inside the while), "returned", "raised", "exited"
    op,          \* which perform_* function is running
    hasFilter,   \* whether the optional filter/query argument is not None
    success,     \* the local variable success
    num_tries,   \* the local variable num_tries
    result,      \* the local variable result (Unbound until assigned)
    xexc,        \* the exception the call raised ("none" while there is none)
    xstatus,     \* exit status of the process (-1 while it runs)
    storeResult, \* history: what the driver call returned last
    lastOutcome, \* history: outcome of the last driver call
    attempts,    \* history: driver calls issued by the current call
    failures,    \* history: AutoReconnect errors met by the current call
    delays,      \* history: time.sleep calls of the current call
    slept,       \* history: time units slept by the current call
    calls,       \* history: perform_* calls begun
    pastFailures,\* history: AutoReconnect errors met by the calls before this one
    \* AzureStorageManager.write_file / write_large_file
    apc,         \* position of the current call
    afn,         \* the function called
    chunksLeft,  \* chunks of the local file that stream.read has not returned yet
    appended,    \* append_block calls of this call that returned
    blobCreated, \* whether create_append_blob has returned in this call
    aret,        \* what the call returned ("unset" until it returns)
    aexc,        \* the exception that left the call, or "none"
    afailed,     \* history: an Azure or file operation of this call failed
    acalls,      \* history: calls begun
    \* PassiveTotal.get_whois / get_organization
    ppc,         \* position of the current call
    pfn,         \* the function called
    requests,    \* history: the forms of the requests.get calls of this call
    pdelays,     \* history: time.sleep calls of this call
    pslept,      \* history: seconds slept by this call
    firstStatus, \* history: status_code of the first response (0 before it)
    status_code, \* req.status_code of the latest response (0 before it)
    bodyValid,   \* whether req.text of the latest response is valid JSON
    pret,        \* what the call returned ("unset" until it returns)
    pexc,        \* the exception that left the call, or "none"
    pcalls       \* history: calls begun

runVars == <<argv, pc, phase, cursor, zone_list, zidx, primary, remote, exc,
             failedOp, exitStatus, nextOid, remote0, fetched, doneZones, nReads, nWrites,
             jobStarts, jobCompletes, writesLeft, done, dirty, m_connection,
             configRead, log, mirrored, written, runNo, remoteAfter1, order>>

connVars == <<m_connection, configRead>>

twiceVars == <<runNo, remoteAfter1>>

execVars == <<xpc, op, hasFilter, success, num_tries, result, xexc, xstatus,
              storeResult, lastOutcome, attempts, failures, delays, slept, calls,
              pastFailures>>

azVars == <<apc, afn, chunksLeft, appended, blobCreated, aret, aexc, afailed,
            acalls>>

ptVars == <<ppc, pfn, requests, pdelays, pslept, firstStatus, status_code,
            bodyValid, pret, pexc, pcalls>>

libVars == <<azVars, ptVars>>

vars == <<runVars, execVars, libVars>>

\* ------------------------------------------------------------- collections
Colls == {"zones", "ip_zones", "ipv6_zones", "aws_ips", "azure_ips",
          "akamai_ips", "gcp_ips", "config", "all_dns"}

\* A main that mirrors the DNS records before the config.
StepOrderDnsBeforeConfig ==
    <<"zones", "ip_zones", "ipv6_zones", "aws_ips", "azure_ips", "akamai_ips",
      "gcp_ips", "all_dns", "config">>

\* The order in which main() calls the update_* functions.
StepOrder == <<"zones", "ip_zones", "ipv6_zones", "aws_ips", "azure_ips",
               "akamai_ips", "gcp_ips", "config", "all_dns">>

Flags == {"send_zones", "send_ip_zones", "send_third_party_zones",
          "send_config", "send_dns_records"}

\* The flag that guards the call of the function mirroring collection c.
FlagOf(c) ==
    CASE c = "zones" -> "send_zones"
      [] c \in {"ip_zones", "ipv6_zones"} -> "send_ip_zones"
      [] c \in {"aws_ips", "azure_ips", "akamai_ips", "gcp_ips"} -> "send_third_party_zones"
      [] c = "config" -> "send_config"
      [] c = "all_dns" -> "send_dns_records"

\* ---------------------------------------------------------------- documents
Range(s) == {s[i] : i \in DOMAIN s}

ZoneDoc(i, z) == ("_id" :> i) @@ ("zone" :> z)
ValDoc(i, v) == ("_id" :> i) @@ ("val" :> v)
DnsDoc(i, z, f) == ("_id" :> i) @@ ("zone" :> z) @@ ("fqdn" :> f)

\* The projection {"_id": 0}: every field but the identifier.
ProjectNoId(d) == [k \in DOMAIN d \ {"_id"} |-> d[k]]

\* A filter that is ignored: every document matches.
MatchesAnything(d, q) == TRUE

\* Whether document d matches query q (equality on every field of q).
Matches(d, q) == \A k \in DOMAIN q : k \in DOMAIN d /\ d[k] = q[k]

\* collection.find(q, {"_id": 0}) fully iterated: the matching documents in
\* natural order, without their identifier.
FindAll(coll, q) ==
    LET hit == SelectSeq(coll, LAMBDA d : Matches(d, q))
    IN  [i \in DOMAIN hit |-> ProjectNoId(hit[i])]

\* A remove that deletes nothing.
RemoveNothing(coll, q) == coll

\* remove({}) whatever the filter: the collection is emptied.
RemoveEverything(coll, q) == <<>>

\* delete_one: only the first matching document is deleted.
RemoveFirstOnly(coll, q) ==
    IF \E i \in DOMAIN coll : Matches(coll[i], q)
    THEN LET k == CHOOSE i \in DOMAIN coll :
                     /\ Matches(coll[i], q)
                     /\ \A j \in 1..(i - 1) : ~Matches(coll[j], q)
         IN  SubSeq(coll, 1, k - 1) \o SubSeq(coll, k + 1, Len(coll))
    ELSE coll

\* collection.remove(q): the documents that do not match stay.
RemoveAll(coll, q) == SelectSeq(coll, LAMBDA d : ~Matches(d, q))

\* collection.insert(d): the driver adds an ObjectId when d has no "_id".
InsertDoc(coll, d, oid) ==
    Append(coll, IF "_id" \in DOMAIN d THEN d ELSE d @@ ("_id" :> oid))

\* The content of a collection with the identifier field excluded.
Bodies(coll) == {ProjectNoId(d) : d \in Range(coll)}

\* ------------------------------------------------------- initial contents
\* The zone name no primary Zone document carries at the start ("stale.com").
StaleZone == MaxZones + 1

\* Primary Zone collections: the zones 1..k in ascending order, or all of
\* them in descending order.
ZoneSeqChoices ==
    {[i \in 1..k |-> ZoneDoc(i, i)] : k \in 0..MaxZones}
    \cup {[i \in 1..MaxZones |-> ZoneDoc(i, MaxZones + 1 - i)]}

Idx(c) == CHOOSE i \in DOMAIN StepOrder : StepOrder[i] = c

\* Number of primary DNS documents of zone z under seed s.
NDns(z, s) == ((z + s) % 2) + 1

RECURSIVE DnsUpTo(_, _)
DnsUpTo(z, s) ==
    IF z = 0 THEN <<>>
    ELSE DnsUpTo(z - 1, s) \o [j \in 1..NDns(z, s) |-> DnsDoc(10 * z + j, z, j)]

\* The primary store under seed s, with the Zone collection zs.
PrimaryStore(zs, s) ==
    [c \in Colls |->
        CASE c = "zones" -> zs
          [] c = "all_dns" -> DnsUpTo(StaleZone, s)
          [] OTHER -> [i \in 1..((Idx(c) + s) % (MaxDocs + 1)) |-> ValDoc(i, i)]]

\* The remote store before the run under seed s: leftovers of earlier runs.
RemoteStore(s) ==
    [c \in Colls |->
        CASE c = "zones" ->
                IF s = 0 THEN <<ZoneDoc(90, StaleZone)>>
                ELSE <<ZoneDoc(90, 1), ZoneDoc(91, StaleZone)>>
          [] c = "all_dns" ->
                [i \in 1..(StaleZone - s) |-> DnsDoc(80 + i, i + s, 0)]
          [] OTHER ->
                [i \in 1..(((Idx(c) \div 2) + s) % (MaxDocs + 1)) |-> ValDoc(90 + i, i + 1)]]

Seeds == {0, 1}

InitRun ==
    /\ argv \in SUBSET Flags
    /\ pc = "NotStarted"
    /\ phase = "find"
    /\ cursor = <<>>
    /\ zone_list = <<>>
    /\ zidx = 1
    /\ \E zs \in ZoneSeqChoices, s \in Seeds :
          /\ primary = PrimaryStore(zs, s)
          /\ remote = RemoteStore(s)
    /\ remote0 = remote
    /\ exc = "none"
    /\ failedOp = "none"
    /\ exitStatus = -1
    /\ nextOid = 100
    /\ fetched = <<>>
    /\ doneZones = <<>>
    /\ nReads = [c \in Colls |-> 0]
    /\ nWrites = [c \in Colls |-> 0]
    /\ jobStarts = 0
    /\ jobCompletes = 0
    /\ done = {}
    /\ dirty = {}
    /\ m_connection = "None"
    /\ configRead = "unread"
    /\ log = <<>>
    /\ mirrored = <<>>
    /\ written = {}
    /\ runNo = 1
    /\ remoteAfter1 = remote

\* ------------------------------------------------------------------- main
\* send_all: no argument was given.
send_all == Cardinality(argv) + 1 = 1

\* The value main passes as update_zones' update_zone_list.
update_zone_list == send_all \/ "send_zones" \in argv

\* A main that ignores the flags.
SelectedAlways(c) == TRUE

\* Whether main calls the function that mirrors collection c.
Selected(c) == c = "zones" \/ send_all \/ FlagOf(c) \in argv

\* A main that goes to record_job_complete after its first step.
NextStepSkipsRest(c) == "job_complete"

\* The collection main turns to when the mirroring of c has returned.
NextStep(c) ==
    LET at == CHOOSE i \in DOMAIN order : order[i] = c
        later == {j \in DOMAIN order : j > at /\ Selected(order[j])}
    IN  IF later = {} THEN "job_complete"
        ELSE order[CHOOSE j \in later : \A k \in later : j <= k]

\* The first collection main turns to: update_zones is always called.
FirstStep == order[CHOOSE j \in DOMAIN order :
                      /\ Selected(order[j])
                      /\ \A k \in 1..(j - 1) : ~Selected(order[k])]

\* A loop body that filters by the first zone of the list every time.
QueryFirstZone(c) ==
    IF c = "all_dns" THEN ("zone" :> zone_list[1]) ELSE <<>>

\* An update_all_dns that clears and reads the whole collection.
QueryWholeCollection(c) == <<>>

\* The query of the find and of the remove on collection c.
Query(c) == IF c = "all_dns" THEN ("zone" :> zone_list[zidx]) ELSE <<>>

\* An update_zones that ignores update_zone_list.
MutatesAlways(c) == TRUE

\* Whether the function mirroring c clears and refills the remote collection.
Mutates(c) == c # "zones" \/ update_zone_list

\* The zone keys of the documents a Zone cursor yields, in its order.
ZoneKeys(docs) == [i \in DOMAIN docs |-> docs[i]["zone"]]

\* An else branch that appends nothing.
ScanOnlyNothing(docs) == <<>>

\* update_zones' else branch: the loop that only appends zone['zone'].
ScanOnly(docs) == ZoneKeys(docs)

\* An if branch that inserts the zone and forgets the append.
ZoneAppendForgotten(zl, d) == zl

\* update_zones' if branch: zone_list.append(zone['zone']).
ZoneAppend(zl, d) == Append(zl, d["zone"])

\* An update_* function that calls remove on the primary's collection
\* object instead of the remote one.
StoreOfRemoveOnPrimary(method) ==
    IF method = "insert" THEN "remote" ELSE "primary"

\* The store whose collection object a call is made on: find on the one
\* from mongo_connector, remove and insert on the one from rm_connector.
StoreOf(method) == IF method = "find" THEN "primary" ELSE "remote"

\* The record of one store call: the method, the store and the collection,
\* and the query of a find or remove or the zone field of an inserted
\* document.
Call(method, c, a) ==
    [call |-> method, store |-> StoreOf(method), coll |-> c, arg |-> a]

\* The zone field of a document, as a query would name it.
ZoneField(d) == IF "zone" \in DOMAIN d THEN ("zone" :> d["zone"]) ELSE <<>>

\* An update_config pasted from update_aws_cidrs that still clears the AWS
\* collection.
RemoveTargetPasted(c) == IF c = "config" THEN "aws_ips" ELSE c

\* The remote collection the function mirroring c calls remove on.
RemoveTarget(c) == c

\* An update_azure_cidrs pasted from update_aws_cidrs that still inserts
\* into the AWS collection.
InsertTargetPasted(c) == IF c = "azure_ips" THEN "aws_ips" ELSE c

\* The remote collection the function mirroring c calls insert on.
InsertTarget(c) == c

\* Errors a store call can raise.
ErrorKinds == {"AutoReconnect", "PyMongoError"}

\* A write wrapped in a handler that records the error and tries again.
WriteRetried(kind, call) ==
    /\ pc' = IF call = "write" THEN pc ELSE "Aborted"
    /\ exc' = kind
    /\ failedOp' = call
    /\ exitStatus' = IF call = "write" THEN exitStatus ELSE 1

\* An exception that is swallowed: the run goes on.
Swallowed(kind, call) ==
    /\ pc' = pc
    /\ exc' = kind
    /\ failedOp' = call
    /\ exitStatus' = exitStatus

\* An exception left uncaught by main ends the process with status 1.
Uncaught(kind, call) ==
    /\ pc' = "Aborted"
    /\ exc' = kind
    /\ failedOp' = call
    /\ exitStatus' = 1

MongoConnector_init ==
    /\ pc = "NotStarted"
    /\ pc' = "remote_connector"
    /\ UNCHANGED <<argv, phase, cursor, zone_list, zidx, primary, remote, exc,
                   failedOp, exitStatus, nextOid, remote0, fetched, doneZones,
                   nReads, nWrites, jobStarts, jobCompletes, writesLeft, done,
                   dirty, execVars,
                   connVars, log, mirrored, written, twiceVars, order, libVars>>

\* A constructor that prints the error and goes on.
ConfigMissingIgnored ==
    /\ pc' = "job_start"
    /\ exitStatus' = exitStatus

\* "if len(list) == 0": print the error and exit(0).
ConfigMissing ==
    /\ pc' = "Exited"
    /\ exitStatus' = 0

\* RemoteMongoConnector.__init__: exit(0) when connector.config cannot be
\* read, before _init_mongo_connection builds the MongoClient.
RemoteMongoConnector_init ==
    /\ pc = "remote_connector"
    /\ \E readable \in BOOLEAN :
          IF readable
          THEN /\ configRead' = "read"
               /\ m_connection' = "client"
               /\ pc' = "job_start"
               /\ exitStatus' = exitStatus
          ELSE /\ configRead' = "unreadable"
               /\ m_connection' = m_connection
               /\ ConfigMissing
    /\ UNCHANGED <<argv, phase, cursor, zone_list, zidx, primary, remote, exc,
                   failedOp, nextOid, remote0, fetched, doneZones,
                   nReads, nWrites, jobStarts, jobCompletes, writesLeft, done,
                   dirty, execVars,
                   log, mirrored, written, twiceVars, order, libVars>>

record_job_start ==
    /\ pc = "job_start"
    /\ jobStarts' = jobStarts + 1
    /\ pc' = FirstStep
    /\ phase' = "find"
    /\ UNCHANGED <<argv, cursor, zone_list, zidx, primary, remote, exc,
                   failedOp, exitStatus, nextOid, remote0, fetched, doneZones,
                   nReads, nWrites, jobCompletes, writesLeft, done, dirty,
                   execVars,
                   connVars, log, mirrored, written, twiceVars, order, libVars>>

\* The function mirroring c returns (for all_dns: one loop iteration ends).
FinishUnit(c) ==
    IF c = "all_dns"
    THEN /\ doneZones' = Append(doneZones, zone_list[zidx])
         /\ mirrored' = Append(mirrored, fetched')
         /\ zidx' = zidx + 1
         /\ pc' = pc
         /\ phase' = "find"
         /\ done' = done
    ELSE /\ pc' = NextStep(c)
         /\ phase' = "find"
         /\ done' = done \cup {c}
         /\ UNCHANGED <<doneZones, mirrored, zidx>>

\* The find call of the function mirroring c: it builds a cursor and reads
\* nothing yet.  For all_dns this is the head of the loop over zone_list.
Find(c) ==
    /\ pc = c
    /\ phase = "find"
    /\ cursor' = <<>>
    /\ fetched' = <<>>
    /\ zone_list' = IF c = "zones" THEN <<>> ELSE zone_list
    /\ IF c = "all_dns" /\ zidx > Len(zone_list)
       THEN pc' = NextStep(c) /\ phase' = phase /\ done' = done \cup {c}
       ELSE pc' = pc /\ phase' = (IF Mutates(c) THEN "remove" ELSE "fetch")
            /\ done' = done
    /\ UNCHANGED <<argv, zidx, primary, remote, exc, failedOp, exitStatus,
                   nextOid, remote0, doneZones, nReads, nWrites, jobStarts,
                   jobCompletes, writesLeft, dirty, execVars,
                   connVars, log, mirrored, written, twiceVars, order, libVars>>

\* remote collection.remove(query)
Remove(c) ==
    /\ pc = c
    /\ phase = "remove"
    /\ nWrites' = [nWrites EXCEPT ![c] = @ + 1]
    /\ log' = Append(log, Call("remove", c, Query(c)))
    /\ \/ /\ IF StoreOf("remove") = "remote"
             THEN /\ remote' = [remote EXCEPT ![RemoveTarget(c)] =
                                                RemoveAll(@, Query(c))]
                  /\ primary' = primary
             ELSE /\ primary' = [primary EXCEPT ![RemoveTarget(c)] =
                                                  RemoveAll(@, Query(c))]
                  /\ remote' = remote
          /\ phase' = "fetch"
          /\ UNCHANGED <<pc, exc, failedOp, exitStatus>>
       \/ /\ \E kind \in ErrorKinds : Uncaught(kind, "write")
          /\ UNCHANGED <<remote, primary, phase>>
    /\ UNCHANGED <<argv, cursor, zone_list, zidx, nextOid, remote0,
                   fetched, doneZones, nReads, jobStarts, jobCompletes,
                   writesLeft, done, dirty, execVars,
                   connVars, mirrored, written, twiceVars, order, libVars>>

\* The first iteration of "for x in cursor": the cursor reads the primary.
\* The read is collection.find itself, not a perform_find call, so whatever
\* it raises leaves update_* and main uncaught.  With update_zone_list False
\* the loop only appends to zone_list, which needs no further store call.
\* The collections here are smaller than one cursor batch (50 documents for
\* all_dns), so the first batch is the whole result of the find.
Fetch(c) ==
    /\ pc = c
    /\ phase = "fetch"
    /\ nReads' = [nReads EXCEPT ![c] = @ + 1]
    /\ log' = Append(log, Call("find", c, Query(c)))
    /\ \/ LET from == IF StoreOf("find") = "primary" THEN primary ELSE remote
              docs == FindAll(from[c], Query(c))
          IN  /\ fetched' = docs
              /\ IF Mutates(c) /\ docs # <<>>
                 THEN /\ cursor' = docs
                      /\ phase' = "insert"
                      /\ UNCHANGED <<pc, zone_list, zidx, doneZones, done,
                                     mirrored>>
                 ELSE /\ cursor' = <<>>
                      /\ zone_list' = IF c = "zones" THEN ScanOnly(docs)
                                      ELSE zone_list
                      /\ FinishUnit(c)
              /\ UNCHANGED <<exc, failedOp, exitStatus>>
       \/ /\ \E kind \in ErrorKinds : Uncaught(kind, "read")
          /\ UNCHANGED <<fetched, cursor, phase, zone_list, zidx, doneZones,
                         done, mirrored>>
    /\ UNCHANGED <<argv, primary, remote, nextOid, remote0, nWrites, jobStarts,
                   jobCompletes, writesLeft, dirty, execVars,
                   connVars, written, twiceVars, order, libVars>>

\* One pass of the loop body: remote collection.insert(document), and for
\* the Zone collection zone_list.append(zone['zone']).
Insert(c) ==
    /\ pc = c
    /\ phase = "insert"
    /\ cursor # <<>>
    /\ nWrites' = [nWrites EXCEPT ![c] = @ + 1]
    /\ log' = Append(log, Call("insert", c, ZoneField(Head(cursor))))
    /\ fetched' = fetched
    /\ \/ /\ IF StoreOf("insert") = "remote"
             THEN /\ remote' = [remote EXCEPT ![InsertTarget(c)] =
                                         InsertDoc(@, Head(cursor), nextOid)]
                  /\ primary' = primary
             ELSE /\ primary' = [primary EXCEPT ![InsertTarget(c)] =
                                         InsertDoc(@, Head(cursor), nextOid)]
                  /\ remote' = remote
          /\ nextOid' = nextOid + 1
          /\ zone_list' = IF c = "zones"
                          THEN ZoneAppend(zone_list, Head(cursor))
                          ELSE zone_list
          /\ cursor' = Tail(cursor)
          /\ IF Tail(cursor) = <<>>
             THEN FinishUnit(c)
             ELSE UNCHANGED <<pc, phase, zidx, doneZones, done, mirrored>>
          /\ UNCHANGED <<exc, failedOp, exitStatus>>
       \/ /\ \E kind \in ErrorKinds : Uncaught(kind, "write")
          /\ UNCHANGED <<remote, primary, nextOid, zone_list, cursor, phase,
                         zidx, doneZones, done, mirrored>>
    /\ UNCHANGED <<argv, remote0, nReads, jobStarts,
                   jobCompletes, writesLeft, dirty, execVars,
                   connVars, written, twiceVars, order, libVars>>

record_job_complete ==
    /\ pc = "job_complete"
    /\ jobCompletes' = jobCompletes + 1
    /\ pc' = "Completed"
    /\ exitStatus' = 0
    /\ UNCHANGED <<argv, phase, cursor, zone_list, zidx, primary, remote, exc,
                   failedOp, nextOid, remote0, fetched, doneZones,
                   nReads, nWrites, jobStarts, writesLeft, done, dirty,
                   execVars,
                   connVars, log, mirrored, written, twiceVars, order, libVars>>

\* ------------------------------------------------ the collector processes
\* Unrelated processes write the primary store while the run mirrors it.
\* A write to collection c: what only the collectors change.
CollectorWrite(c, docs) ==
    /\ pc \in Colls
    /\ writesLeft > 0
    /\ primary' = [primary EXCEPT ![c] = docs]
    /\ writesLeft' = writesLeft - 1
    /\ dirty' = IF pc = c \/ c \in done THEN dirty \cup {c} ELSE dirty
    /\ written' = written \cup {c}
    /\ UNCHANGED <<argv, pc, phase, cursor, zone_list, zidx, remote, exc,
                   failedOp, exitStatus, nextOid, remote0, fetched, doneZones,
                   nReads, nWrites, jobStarts, jobCompletes, done, execVars,
                   connVars, log, mirrored, twiceVars, order, libVars>>

ZoneCollectorAdd ==
    /\ \A d \in Range(primary["zones"]) : d["zone"] # StaleZone
    /\ CollectorWrite("zones", Append(primary["zones"], ZoneDoc(50, StaleZone)))

ZoneCollectorRemove ==
    /\ primary["zones"] # <<>>
    /\ CollectorWrite("zones", Tail(primary["zones"]))

DnsCollectorAdd ==
    CollectorWrite("all_dns", Append(primary["all_dns"], DnsDoc(50 + writesLeft, 1, 5)))

CidrCollectorAdd ==
    CollectorWrite("aws_ips", Append(primary["aws_ips"], ValDoc(50 + writesLeft, 9)))

\* The script is started again with the same arguments once the run before
\* it has completed: a new process, the same two stores.
RunAgain ==
    /\ pc = "Completed"
    /\ runNo < MaxRuns
    /\ runNo' = runNo + 1
    /\ remoteAfter1' = IF runNo = 1 THEN remote ELSE remoteAfter1
    /\ remote0' = remote
    /\ pc' = "NotStarted"
    /\ phase' = "find"
    /\ cursor' = <<>>
    /\ zone_list' = <<>>
    /\ zidx' = 1
    /\ exitStatus' = -1
    /\ fetched' = <<>>
    /\ doneZones' = <<>>
    /\ nReads' = [c \in Colls |-> 0]
    /\ nWrites' = [c \in Colls |-> 0]
    /\ jobStarts' = 0
    /\ jobCompletes' = 0
    /\ done' = {}
    /\ dirty' = {}
    /\ m_connection' = "None"
    /\ configRead' = "unread"
    /\ log' = <<>>
    /\ mirrored' = <<>>
    /\ UNCHANGED <<argv, primary, remote, exc, failedOp, nextOid, writesLeft,
                   written, order, execVars, libVars>>

NextRun ==
    \/ MongoConnector_init
    \/ RemoteMongoConnector_init
    \/ record_job_start
    \/ \E c \in Colls : Find(c)
    \/ \E c \in Colls : Remove(c)
    \/ \E c \in Colls : Fetch(c)
    \/ \E c \in Colls : Insert(c)
    \/ record_job_complete
    \/ ZoneCollectorAdd
    \/ ZoneCollectorRemove
    \/ DnsCollectorAdd
    \/ CidrCollectorAdd

\* ------------------------------------------------- the mirror-run claims
\* The collections mirrored by clear-and-refill of the whole collection.
FullReplace == {"ip_zones", "ipv6_zones", "config", "aws_ips", "azure_ips",
                "akamai_ips", "gcp_ips"}

\* The documents of zone z in a DNS collection, in natural order.
ZoneDocsOf(coll, z) == SelectSeq(coll, LAMBDA d : d["zone"] = z)

\* A sequence of documents with the identifier field excluded.
NoIds(docs) == [i \in DOMAIN docs |-> ProjectNoId(docs[i])]

\* C4 as stated: a primary read that fails with AutoReconnect is retried by
\* the perform_* wrappers and so never ends the run.
C4_TransientReadNeverAborts ==
    ~(pc = "Aborted" /\ failedOp = "read" /\ exc = "AutoReconnect")

\* C5: once a full-replace function has returned and no collector has
\* written its source since the function began, the remote collection holds
\* exactly the source's documents, identifiers aside, and no document of the
\* remote's earlier content survives.
C5_FullReplaceCorrect ==
    \A c \in FullReplace :
        (c \in done /\ c \notin dirty) =>
            /\ Bodies(remote[c]) = Bodies(primary[c])
            /\ Len(remote[c]) = Len(primary[c])
            /\ Range(remote[c]) \cap Range(remote0[c]) = {}

\* update_aws_cidrs has replaced leftovers, some of them not in the source,
\* by the documents of a non-empty source.
C5_Witness ==
    /\ "aws_ips" \in done
    /\ "aws_ips" \notin dirty
    /\ primary["aws_ips"] # <<>>
    /\ Bodies(remote0["aws_ips"]) \ Bodies(primary["aws_ips"]) # {}
    /\ Bodies(remote["aws_ips"]) = Bodies(primary["aws_ips"])

\* C6: right after the DNS iteration of a zone z of zone_list, the remote DNS
\* documents of z are exactly the documents that iteration read from the
\* primary, and the remote DNS documents of every zone of zone_list not yet
\* processed are what they were before the run.
C6_ZoneScoped ==
    /\ (pc = "all_dns" /\ phase = "find" /\ zidx > 1 =>
            /\ doneZones = SubSeq(zone_list, 1, zidx - 1)
            /\ NoIds(ZoneDocsOf(remote["all_dns"], zone_list[zidx - 1])) = fetched
            /\ \A d \in Range(fetched) : d["zone"] = zone_list[zidx - 1])
    /\ \A i \in 1..Len(zone_list) :
            (i > zidx \/ (i = zidx /\ phase = "find")) =>
                ZoneDocsOf(remote["all_dns"], zone_list[i])
                    = ZoneDocsOf(remote0["all_dns"], zone_list[i])

\* The first of two zones has just been mirrored: its stale documents were
\* replaced, and the second zone still has documents from before the run.
C6_Witness ==
    /\ pc = "all_dns"
    /\ phase = "find"
    /\ zidx = 2
    /\ Len(zone_list) >= 2
    /\ fetched # <<>>
    /\ ZoneDocsOf(remote0["all_dns"], zone_list[1]) # <<>>
    /\ ZoneDocsOf(remote["all_dns"], zone_list[2]) # <<>>

\* C7: in a run with --send_dns_records alone, no DNS document is read,
\* deleted or inserted before update_zones has returned the zone list it
\* read from the primary Zone collection in one scan, and the remote Zone
\* collection is never written.
C7_DnsOnlyOrdering ==
    argv = {"send_dns_records"} =>
        /\ remote["zones"] = remote0["zones"]
        /\ nWrites["zones"] = 0
        /\ (nReads["all_dns"] > 0 \/ nWrites["all_dns"] > 0 =>
                /\ "zones" \in done
                /\ nReads["zones"] = 1)
        /\ ("zones" \in done /\ "zones" \notin dirty =>
                zone_list = ZoneKeys(primary["zones"]))

\* A run with --send_dns_records alone has completed and mirrored the DNS
\* documents of a non-empty zone list.
C7_Witness ==
    /\ argv = {"send_dns_records"}
    /\ pc = "Completed"
    /\ zone_list # <<>>
    /\ nWrites["all_dns"] > 0
    /\ remote["all_dns"] # remote0["all_dns"]

\* Whether the step of collection c has run: its function has returned,
\* and for the Zone collection it has cleared the remote collection.
StepRan(c) == c \in done /\ (c = "zones" => nWrites[c] > 0)

\* C8: with no flag every step has run when the run completes; with flags,
\* every flagged step has run when the run completes, and the collections of
\* the unflagged steps are never read for mirroring nor written.
C8_StepSelection ==
    /\ (pc = "Completed" /\ argv = {} => \A c \in Colls : StepRan(c))
    /\ (pc = "Completed" /\ argv # {} =>
            \A c \in Colls : StepRan(c) <=> FlagOf(c) \in argv)
    /\ (argv # {} =>
            \A c \in Colls : FlagOf(c) \notin argv =>
                /\ remote[c] = remote0[c]
                /\ nWrites[c] = 0
                /\ (c # "zones" => nReads[c] = 0))

\* A run with two flags has completed and changed the remote store.
C8_Witness ==
    /\ pc = "Completed"
    /\ argv = {"send_ip_zones", "send_config"}
    /\ remote["config"] # remote0["config"]
    /\ remote["ip_zones"] # remote0["ip_zones"]
    /\ remote["aws_ips"] = remote0["aws_ips"] /\ remote0["aws_ips"] # <<>>

\* C9: the primary Zone collection is read once per run, with or without
\* zone mirroring; the zone list is the keys that scan yielded, in its
\* order; it never changes once update_zones has returned, whatever the
\* collectors write; and the DNS step processes its zones in its order.
C9_ZoneListOnce ==
    /\ [](nReads["zones"] <= 1)
    /\ []("zones" \in done => nReads["zones"] = 1)
    /\ [](doneZones = SubSeq(zone_list, 1, Len(doneZones)))
    /\ []("all_dns" \in done => doneZones = zone_list)
    /\ [][("zones" \in done' /\ "zones" \notin done) =>
              zone_list' = ZoneKeys(fetched')]_vars
    /\ [][("zones" \in done) => zone_list' = zone_list]_vars

\* A run without zone mirroring has completed the DNS step over the zone
\* list it scanned, although a collector changed the Zone collection after
\* the scan.
C9_Witness ==
    /\ pc = "Completed"
    /\ argv = {"send_dns_records"}
    /\ "zones" \in dirty
    /\ zone_list # <<>>
    /\ doneZones = zone_list
    /\ ZoneKeys(primary["zones"]) # zone_list

\* C10 rests on two step predicates: the run moves forward in main's order,
\* and a terminal run stays as it is.  C10: a run completes only through every selected step returning without
\* error; the first error not handled in a step makes the run Aborted at
\* once, with the remote store as the calls before it left it; Aborted and
\* Completed runs read and write nothing more.
C10_Forward == pc' \in {"Aborted", "job_complete"} \/ (pc' \in Colls /\ Idx(pc') > Idx(pc))

C10_Frozen ==
    /\ pc' = pc
    /\ remote' = remote
    /\ nReads' = nReads
    /\ nWrites' = nWrites
    /\ done' = done
    /\ exc' = exc

C10_RunStateMachine ==
    /\ [](pc = "Completed" =>
            /\ exc = "none"
            /\ exitStatus = 0
            /\ \A c \in Colls : Selected(c) => c \in done)
    /\ [](pc = "Aborted" <=> exc # "none")
    /\ [][(pc' = "Completed" /\ pc # "Completed") => pc = "job_complete"]_vars
    /\ [][(pc \in Colls /\ pc' # pc) => C10_Forward]_vars
    /\ [][(pc' = "Aborted" /\ pc # "Aborted") => (pc \in Colls /\ remote' = remote /\ done' = done)]_vars
    /\ [][(pc \in {"Aborted", "Completed"}) => C10_Frozen]_vars

\* A run was aborted in a later step after update_aws_cidrs had replaced
\* its collection, which keeps the mirrored content.
C10_Witness ==
    /\ pc = "Aborted"
    /\ "aws_ips" \in done
    /\ "aws_ips" \notin dirty
    /\ remote["aws_ips"] # remote0["aws_ips"]
    /\ Bodies(remote["aws_ips"]) = Bodies(primary["aws_ips"])

\* The last store call the run has issued.
LastCall == log[Len(log)]

C11_FailStep ==
    /\ pc \in Colls
    /\ pc' = "Aborted"
    /\ remote' = remote
    /\ nWrites' = [nWrites EXCEPT ![pc] = @ + 1]
    /\ Len(log') = Len(log) + 1
    /\ log'[Len(log')].coll = pc
    /\ log'[Len(log')].call \in {"remove", "insert"}

C11_NoMore ==
    /\ log' = log
    /\ nWrites' = nWrites
    /\ nReads' = nReads
    /\ remote' = remote

\* C11: writes to the remote store are never retried. The step on which a
\* remove or an insert against a destination collection first fails issues
\* that one call, leaves the destination as it was and aborts the run with
\* exit status 1; from then on the run issues no store call at all, so the
\* failed write stays the last call and was attempted exactly once.
C11_WritesNeverRetried ==
    /\ [](failedOp = "write" =>
            /\ pc = "Aborted"
            /\ exitStatus = 1
            /\ LastCall.call \in {"remove", "insert"})
    /\ [][(failedOp = "none" /\ failedOp' = "write") => C11_FailStep]_vars
    /\ [][(failedOp = "write") => C11_NoMore]_vars

\* An insert failed after the remove and an earlier insert of its step had
\* succeeded.
C11_Witness ==
    /\ pc = "Aborted"
    /\ failedOp = "write"
    /\ LastCall.call = "insert"
    /\ LastCall.coll \in FullReplace
    /\ Len(remote[LastCall.coll]) >= 1
    /\ nWrites[LastCall.coll] >= 3

\* C12 as stated: every fatal condition ends the process with an exit status
\* different from 0. Once connector.config could not be read, or a step has
\* raised an error nothing handles, the process has ended and its status is
\* not 0.
C12_FatalExitNonzero ==
    (configRead = "unreadable" \/ exc # "none") =>
        (pc \in {"Exited", "Aborted"} /\ exitStatus >= 1)

\* C13: an unreadable configuration is fatal before any connection is
\* attempted. Once config.read has returned nothing, the constructor has
\* ended the process with no client made, and the run has recorded no job
\* start, read nothing from the primary and written nothing to the
\* destination.
C13_UnreadableConfigFatal ==
    configRead = "unreadable" =>
        /\ pc = "Exited"
        /\ m_connection = "None"
        /\ jobStarts = 0
        /\ jobCompletes = 0
        /\ log = <<>>
        /\ remote = remote0
        /\ \A c \in Colls : nReads[c] = 0 /\ nWrites[c] = 0

\* The constructor found no configuration in a run asked to mirror
\* everything, whose destination holds documents to replace.
C13_Witness ==
    /\ configRead = "unreadable"
    /\ pc = "Exited"
    /\ m_connection = "None"
    /\ argv = {}
    /\ remote["zones"] # <<>>
    /\ primary["zones"] # <<>>

\* C14: when zone mirroring is selected, after the zone step the destination
\* Zone collection equals the primary one whatever it held before, and the
\* zone list is the sequence of zone keys of the documents inserted in that
\* pass; when it is not selected the destination is left alone and the zone
\* list is the same sequence of keys of the primary's documents.
C14_ZoneStep ==
    "zones" \in done =>
        /\ (argv = {} \/ "send_zones" \in argv) =>
              /\ zone_list = ZoneKeys(remote["zones"])
              /\ Range(remote["zones"]) \cap Range(remote0["zones"]) = {}
              /\ "zones" \notin dirty =>
                    NoIds(remote["zones"]) = NoIds(primary["zones"])
        /\ (argv # {} /\ "send_zones" \notin argv) =>
              /\ remote["zones"] = remote0["zones"]
              /\ "zones" \notin dirty =>
                    zone_list = ZoneKeys(primary["zones"])

\* The zone step replaced a destination holding only a stale zone by the
\* primary's zones, and the zone list names them.
C14_Witness ==
    /\ "zones" \in done
    /\ "send_zones" \in argv
    /\ "zones" \notin dirty
    /\ ZoneKeys(remote0["zones"]) = <<StaleZone>>
    /\ zone_list = <<1, 2>>
    /\ ZoneKeys(remote["zones"]) = <<1, 2>>

\* C15: running the same full-replace step twice in a row with an unchanged
\* source gives the same destination content after the second run as after
\* the first. Content is compared with the identifier field excluded: every
\* insert is given a fresh _id by the driver.
C15_Idempotent ==
    (runNo >= 2 /\ pc = "Completed") =>
        \A c \in FullReplace :
            (c \in done /\ c \notin written) =>
                NoIds(remote[c]) = NoIds(remoteAfter1[c])

\* The config step ran a second time and inserted its documents again,
\* under new identifiers.
C15_Witness ==
    /\ runNo = 2
    /\ pc = "Completed"
    /\ "config" \in done
    /\ "config" \notin written
    /\ nWrites["config"] >= 2
    /\ remote["config"] # remoteAfter1["config"]
    /\ NoIds(remote["config"]) = NoIds(remoteAfter1["config"])

\* The destination DNS documents of the i-th zone of the zone list.
RemoteDnsOf(i) == ZoneDocsOf(remote["all_dns"], zone_list[i])

\* The i-th zone holds what its iteration of update_all_dns read, and
\* nothing from before the run.
FreshlyMirrored(i) ==
    /\ i <= Len(mirrored)
    /\ NoIds(RemoteDnsOf(i)) = mirrored[i]
    /\ Range(RemoteDnsOf(i)) \cap Range(remote0["all_dns"]) = {}

\* The i-th zone holds the documents it had before the run.
PreRun(i) == RemoteDnsOf(i) = ZoneDocsOf(remote0["all_dns"], zone_list[i])

\* C16: at every instant, an abort included, at most one zone of the zone
\* list is torn in the destination DNS collection: the zones before the one
\* being mirrored hold their freshly mirrored documents, the zones after it
\* hold their pre-run documents.
C16_OneTornZone ==
    /\ \A i \in DOMAIN zone_list :
          /\ i <= Len(doneZones) => FreshlyMirrored(i)
          /\ i > Len(doneZones) + 1 => PreRun(i)
    /\ Cardinality({i \in DOMAIN zone_list :
                       ~FreshlyMirrored(i) /\ ~PreRun(i)}) <= 1

\* The run was aborted while the second of three zones was cleared: the
\* first holds its new documents, the third its old ones.
C16_Witness ==
    /\ pc = "Aborted"
    /\ Len(zone_list) = 3
    /\ Len(doneZones) = 1
    /\ FreshlyMirrored(1)
    /\ ~PreRun(1)
    /\ ~FreshlyMirrored(2)
    /\ ~PreRun(2)
    /\ PreRun(3)
    /\ RemoteDnsOf(3) # <<>>

\* The zones that have documents in the destination DNS collection, now or
\* before the run.
RemoteDnsZones ==
    {d["zone"] : d \in Range(remote0["all_dns"]) \cup Range(remote["all_dns"])}

\* C17: the DNS step never clears the whole destination DNS collection.
\* Every remove it issues on that collection is filtered by one zone name,
\* taken from the zone list, and the destination documents of a zone that is
\* not in the zone list are at every instant those of before the run; with
\* an empty zone list the whole collection is.
C17_DnsDeleteZoneScoped ==
    /\ \A i \in DOMAIN log :
          (log[i].coll = "all_dns" /\ log[i].call = "remove") =>
              /\ DOMAIN log[i].arg = {"zone"}
              /\ log[i].arg["zone"] \in Range(zone_list)
    /\ \A z \in RemoteDnsZones :
          z \notin Range(zone_list) =>
              ZoneDocsOf(remote["all_dns"], z) = ZoneDocsOf(remote0["all_dns"], z)
    /\ zone_list = <<>> => remote["all_dns"] = remote0["all_dns"]

\* The DNS step completed and replaced the documents of the listed zones,
\* next to a zone that is not listed and kept its documents.
C17_Witness ==
    /\ pc = "Completed"
    /\ "all_dns" \in done
    /\ zone_list # <<>>
    /\ remote["all_dns"] # remote0["all_dns"]
    /\ \E z \in RemoteDnsZones :
          /\ z \notin Range(zone_list)
          /\ ZoneDocsOf(remote["all_dns"], z) # <<>>

\* The removes and inserts the run has issued on the destination DNS
\* collection, in order.
DnsWrites ==
    SelectSeq(log, LAMBDA e : e.coll = "all_dns" /\ e.call \in {"remove", "insert"})

\* The zones those calls were about, in order.
DnsWriteZones == [i \in DOMAIN DnsWrites |-> DnsWrites[i].arg["zone"]]

\* The position of zone z in the zone list.
Pos(z) == CHOOSE i \in DOMAIN zone_list : zone_list[i] = z

\* How many removes the run has issued for zone z.
RemovesOf(z) ==
    Cardinality({j \in DOMAIN DnsWrites :
                    DnsWrites[j].call = "remove" /\ DnsWriteZones[j] = z})

\* C18: the DNS step takes the zones in the order of the zone list; the
\* remove of a zone and all of its inserts come before the remove of the next
\* zone, and no zone is cleared and refilled more than once in a run.
C18_DnsZoneOrder ==
    /\ doneZones = SubSeq(zone_list, 1, Len(doneZones))
    /\ \A j \in DOMAIN DnsWrites :
          /\ DnsWriteZones[j] \in Range(zone_list)
          /\ \A i \in 1..(j - 1) :
                IF DnsWrites[j].call = "remove"
                THEN Pos(DnsWriteZones[i]) < Pos(DnsWriteZones[j])
                ELSE Pos(DnsWriteZones[i]) <= Pos(DnsWriteZones[j])
          /\ DnsWrites[j].call = "insert" =>
                \E i \in 1..(j - 1) :
                    /\ DnsWrites[i].call = "remove"
                    /\ DnsWriteZones[i] = DnsWriteZones[j]
    /\ \A i \in DOMAIN zone_list :
          /\ RemovesOf(zone_list[i]) <= 1
          /\ i <= Len(doneZones) => RemovesOf(zone_list[i]) = 1
          /\ i > Len(doneZones) + 1 => RemovesOf(zone_list[i]) = 0

\* The DNS step completed over three zones, each cleared once and refilled.
C18_Witness ==
    /\ pc = "Completed"
    /\ Len(zone_list) = 3
    /\ doneZones = zone_list
    /\ \A i \in DOMAIN zone_list : RemovesOf(zone_list[i]) = 1
    /\ Len(DnsWrites) > 4

\* An insert of a full-replace step failed and ended the run.
InsertFailed ==
    /\ pc = "Aborted"
    /\ failedOp = "write"
    /\ LastCall.call = "insert"
    /\ LastCall.coll \in FullReplace

C19_Partial ==
    LET c == LastCall.coll
        inserted == Len(fetched) - Len(cursor)
    IN  /\ c \notin done
        /\ cursor # <<>>
        /\ NoIds(remote[c]) = SubSeq(fetched, 1, inserted)
        /\ Range(remote[c]) \cap Range(remote0[c]) = {}

\* C19: when a destination insert fails partway through a full-replace
\* step, the run aborts with no rollback: the destination collection holds
\* the source documents inserted before the failure and nothing else, none
\* of its pre-step documents, and stays so for the rest of the run.
C19_AbortLeavesPartial ==
    /\ [](InsertFailed => C19_Partial)
    /\ [][(pc = "Aborted") => (remote' = remote /\ pc' = "Aborted")]_vars

\* The second insert of a step failed: the destination holds the first
\* source document only, its own earlier documents are gone.
C19_Witness ==
    /\ InsertFailed
    /\ Len(remote[LastCall.coll]) = 1
    /\ Len(fetched) >= 2
    /\ remote0[LastCall.coll] # <<>>

\* The order of the steps as C20 gives it.
C20_Order == <<"zones", "ip_zones", "ipv6_zones", "aws_ips", "azure_ips",
               "akamai_ips", "gcp_ips", "config", "all_dns">>

Rank(c) == CHOOSE i \in DOMAIN C20_Order : C20_Order[i] = c

\* C20: in a run where all steps are selected the steps run one at a time in
\* the order zones, ip-zones (IPv4 then IPv6), third-party CIDRs (AWS, Azure,
\* Akamai, GCP), config, DNS records: no store call of a step comes after a
\* call of a later step, a step is reached only when all the steps before it
\* have returned, and a completed run has cleared every collection's step.
C20_StepsInOrder ==
    (argv = {} \/ argv = Flags) =>
        /\ \A j \in DOMAIN log : \A i \in 1..(j - 1) :
              Rank(log[i].coll) <= Rank(log[j].coll)
        /\ pc \in Colls => done = {C20_Order[k] : k \in 1..(Rank(pc) - 1)}
        /\ \A c \in done : \A d \in Colls : Rank(d) < Rank(c) => d \in done
        /\ pc = "Completed" =>
              /\ done = Colls
              /\ \A c \in FullReplace \cup {"zones"} :
                    \E i \in DOMAIN log : log[i] = Call("remove", c, <<>>)

\* A run with no argument completed and mirrored the DNS records of a
\* zone last.
C20_Witness ==
    /\ argv = {}
    /\ pc = "Completed"
    /\ zone_list # <<>>
    /\ LastCall.coll = "all_dns"
    /\ log[1].coll = "zones"
    /\ \E i \in DOMAIN log : log[i].coll = "config"

\* What the DNS step leaves in a destination collection coll after it has
\* handled the zones zs: each zone's documents are removed and the primary's
\* documents of that zone are appended.
RECURSIVE DnsAfter(_, _)
DnsAfter(coll, zs) ==
    IF zs = <<>> THEN coll
    ELSE DnsAfter(SelectSeq(coll, LAMBDA d : d["zone"] # Head(zs))
                     \o NoIds(ZoneDocsOf(primary["all_dns"], Head(zs))),
                  Tail(zs))

\* The final content of destination collection c that the declaration order
\* gives for the sources of this run, with the identifier field excluded.
DeclaredResult(c) ==
    IF c = "all_dns"
    THEN DnsAfter(NoIds(remote0["all_dns"]), ZoneKeys(primary["zones"]))
    ELSE NoIds(primary[c])

\* C21: the steps other than the zone-list-before-DNS pair are
\* order-independent. With an unchanged source and no failure, a run that
\* executes the steps in any order in which the DNS step follows the zone
\* step ends with every destination collection holding what the declaration
\* order gives.
C21_OrderIndependent ==
    (pc = "Completed" /\ written = {}) =>
        \A c \in Colls : NoIds(remote[c]) = DeclaredResult(c)

\* A run that called update_config first and update_zones after the
\* third-party step completed.
C21_Witness ==
    /\ pc = "Completed"
    /\ written = {}
    /\ order[1] = "config"
    /\ order[2] = "aws_ips"
    /\ order # StepOrder
    /\ Len(zone_list) = 2
    /\ remote["all_dns"] # remote0["all_dns"]
    /\ \A c \in Colls : NoIds(remote[c]) = DeclaredResult(c)

\* The collections of the third-party step.
Providers == {"aws_ips", "azure_ips", "akamai_ips", "gcp_ips"}

C22_OwnCollectionOnly == \A d \in Colls \ {pc} : remote'[d] = remote[d]

\* C22: each full-replace step changes only its own destination collection:
\* while the function mirroring one collection runs, every other destination
\* collection stays as it is; and a completed run that selected the
\* third-party step has cleared and refilled all four provider collections.
C22_StepFrame ==
    /\ [][(pc \in FullReplace) => C22_OwnCollectionOnly]_vars
    /\ []((pc = "Completed" /\ (argv = {} \/ "send_third_party_zones" \in argv)) =>
            \A c \in Providers :
                /\ c \in done
                /\ \E i \in DOMAIN log : log[i] = Call("remove", c, <<>>)
                /\ Range(remote[c]) \cap Range(remote0[c]) = {}
                /\ c \notin written => NoIds(remote[c]) = NoIds(primary[c]))

\* A run asked for the third-party step alone completed: the provider
\* collections were replaced, the others are as before the run.
C22_Witness ==
    /\ pc = "Completed"
    /\ argv = {"send_third_party_zones"}
    /\ written = {}
    /\ \E c \in Providers : remote[c] # remote0[c] /\ remote[c] # <<>>
    /\ \A c \in Providers : NoIds(remote[c]) = NoIds(primary[c])
    /\ \A c \in Colls \ Providers : remote[c] = remote0[c]

C23_CompleteStep ==
    /\ pc = "job_complete"
    /\ pc' = "Completed"
    /\ jobCompletes' = 1
    /\ log' = log
    /\ remote' = remote

\* C23: the job lifecycle events bracket the run. Job start is recorded
\* once, when both connectors have been constructed and before the first
\* read or write of a step; job completion is recorded once, when the last
\* selected step has returned, and no store call follows it; a run that
\* aborts or exits never records completion.
C23_JobLifecycle ==
    /\ [](jobStarts <= 1 /\ jobCompletes <= jobStarts)
    /\ [](jobStarts = 1 =>
            (configRead = "read" /\ m_connection = "client" /\ pc # "NotStarted"))
    /\ []((log # <<>> \/ pc \in Colls) => jobStarts = 1)
    /\ [](jobCompletes = 1 <=> pc = "Completed")
    /\ [](jobCompletes = 1 =>
            (exc = "none" /\ \A c \in Colls : Selected(c) => c \in done))
    /\ [](pc \in {"Aborted", "Exited"} => jobCompletes = 0)
    /\ [][(jobStarts' # jobStarts) => (pc = "job_start" /\ jobStarts' = 1 /\ log = <<>>)]_vars
    /\ [][(jobCompletes' # jobCompletes) => C23_CompleteStep]_vars
    /\ [][(jobCompletes = 1) => (log' = log /\ jobCompletes' = 1)]_vars

\* A run with no argument recorded its start and, after the DNS step over a
\* zone, its completion.
C23_Witness ==
    /\ pc = "Completed"
    /\ jobStarts = 1
    /\ jobCompletes = 1
    /\ argv = {}
    /\ done = Colls
    /\ doneZones # <<>>

C24_StoreOfCall ==
    /\ Len(log') = Len(log) + 1
    /\ primary' = primary
    /\ LET e == log'[Len(log')]
       IN  /\ e.call = "find" => (e.store = "primary" /\ remote' = remote)
           /\ e.call \in {"remove", "insert"} => e.store = "remote"

\* C24: a mirror run never writes to the primary store's data collections.
\* Every remove and insert a step issues is made on a remote collection and
\* every find on a primary collection, no step of the run changes the
\* primary, and the primary content changes only when a collector writes.
C24_PrimaryReadOnly ==
    /\ [](\A i \in DOMAIN log :
            log[i].store = IF log[i].call = "find" THEN "primary" ELSE "remote")
    /\ [][(log' # log /\ runNo' = runNo) => C24_StoreOfCall]_vars
    /\ [][(primary' # primary) => (writesLeft' < writesLeft /\ written' # {} /\ log' = log)]_vars
    /\ [](written = {} =>
            primary \in {PrimaryStore(primary["zones"], s) : s \in Seeds})

\* A run with no argument completed after removing from and inserting into
\* every destination collection, next to a primary no collector wrote.
C24_Witness ==
    /\ pc = "Completed"
    /\ argv = {}
    /\ written = {}
    /\ \A c \in Colls :
          \E i, j \in DOMAIN log :
              /\ log[i] = Call("remove", c, log[i].arg)
              /\ log[j].call = "find" /\ log[j].coll = c
    /\ \E i \in DOMAIN log : log[i].call = "insert" /\ log[i].coll = "all_dns"
    /\ remote # remote0

\* ------------------------------------ RemoteMongoConnector.perform_* calls
Ops == {"find", "find_one", "count", "distinct"}

\* perform_count has no optional argument.
HasOptional(o) == o # "count"

\* The driver call one attempt issues.
StoreCall(o, f) ==
    CASE o = "find" -> IF f THEN "find(query, filter)" ELSE "find(query)"
      [] o = "find_one" -> IF f THEN "find_one(query, filter)" ELSE "find_one(query)"
      [] o = "count" -> "find(query).count()"
      [] o = "distinct" -> IF f THEN "distinct(field, query)" ELSE "distinct(field)"

\* The local variable result before any driver call has returned: the
\* name is not bound yet.
Unbound == <<"unbound", 0>>

\* The bound of "if num_tries < 5".
RetryLimit == 5

\* The argument of time.sleep.
RetryDelay == 5

\* A guard that lets one more retry through.
MayRetryOnceMore(n) == n <= RetryLimit

\* A guard that gives up two retries early.
MayRetryFewer(n) == n + 2 < RetryLimit

\* The guard "if num_tries < 5" of the except branch.
MayRetry(n) == n < RetryLimit

\* A handler written "except Exception".
CaughtAny(kind) == TRUE

\* "except AutoReconnect": the only error kind the handler catches.
Caught(kind) == kind = "AutoReconnect"

\* An except branch that forgets "num_tries += 1".
NextTriesForgotten(n) == n

\* "num_tries += 1" of the except branch.
NextTries(n) == n + 1

\* A counter kept on the connector object, which a new call finds as the
\* call before it left it.
TriesKept(n) == n

\* "num_tries = 0" at the top of every perform_* function; n is the value
\* the call before left.
TriesAtEntry(n) == 0

\* What "return result" hands to the caller.
Returned(r) == r

ExecIdle ==
    /\ xpc = "idle"
    /\ op = "find"
    /\ hasFilter = FALSE
    /\ success = FALSE
    /\ num_tries = 0
    /\ result = Unbound
    /\ xexc = "none"
    /\ xstatus = -1
    /\ storeResult = Unbound
    /\ lastOutcome = "none"
    /\ attempts = 0
    /\ failures = 0
    /\ delays = 0
    /\ slept = 0
    /\ calls = 0
    /\ pastFailures = 0

\* A caller enters perform_find, perform_find_one, perform_count or
\* perform_distinct: success = False, num_tries = 0.
perform_enter ==
    /\ xpc \in {"idle", "returned", "raised"}
    /\ calls < MaxCalls
    /\ \E o \in Ops, f \in BOOLEAN :
          /\ (f => HasOptional(o))
          /\ op' = o
          /\ hasFilter' = f
    /\ xpc' = "loop"
    /\ success' = FALSE
    /\ num_tries' = TriesAtEntry(num_tries)
    /\ pastFailures' = pastFailures + failures
    /\ result' = Unbound
    /\ xexc' = "none"
    /\ lastOutcome' = "none"
    /\ attempts' = 0
    /\ failures' = 0
    /\ delays' = 0
    /\ slept' = 0
    /\ calls' = calls + 1
    /\ UNCHANGED <<xstatus, storeResult, runVars, libVars>>

\* One pass of "while not success" in which the driver call returns.
attempt_ok ==
    /\ xpc = "loop"
    /\ ~success
    /\ \E v \in 1..NumResults :
          /\ storeResult' = <<StoreCall(op, hasFilter), v>>
          /\ result' = storeResult'
    /\ success' = TRUE
    /\ lastOutcome' = "ok"
    /\ attempts' = attempts + 1
    /\ UNCHANGED <<xpc, op, hasFilter, num_tries, xexc, xstatus, failures,
                   delays, slept, calls, pastFailures, runVars, libVars>>

\* One pass in which the driver call raises.
attempt_raises ==
    /\ xpc = "loop"
    /\ ~success
    /\ attempts' = attempts + 1
    /\ \E kind \in ErrorKinds :
          /\ lastOutcome' = kind
          /\ IF Caught(kind)
             THEN /\ failures' = failures + 1
                  /\ IF MayRetry(num_tries)
                     THEN /\ delays' = delays + 1
                          /\ slept' = slept + RetryDelay
                          /\ num_tries' = NextTries(num_tries)
                          /\ UNCHANGED <<xpc, xexc, xstatus>>
                     ELSE /\ xpc' = "exited"
                          /\ xexc' = "SystemExit"
                          /\ xstatus' = 1
                          /\ UNCHANGED <<delays, slept, num_tries>>
             ELSE /\ xpc' = "raised"
                  /\ xexc' = kind
                  /\ UNCHANGED <<failures, delays, slept, num_tries, xstatus>>
    /\ UNCHANGED <<op, hasFilter, success, result, storeResult, calls,
                   pastFailures, runVars, libVars>>

\* The while loop ends and "return result" runs.
perform_return ==
    /\ xpc = "loop"
    /\ success
    /\ xpc' = "returned"
    /\ result' = Returned(result)
    /\ UNCHANGED <<op, hasFilter, success, num_tries, xexc, xstatus,
                   storeResult, lastOutcome, attempts, failures, delays, slept,
                   calls, pastFailures, runVars, libVars>>

NextExec ==
    \/ perform_enter
    \/ attempt_ok
    \/ attempt_raises
    \/ perform_return

\* ------------------------------------------------- the perform_* claims
\* C1 as stated: when every attempt fails with AutoReconnect, at most 5
\* attempts are made, the 5th failure exits the process, and there is no 6th
\* attempt.
C1_FiveAttemptsAsStated ==
    /\ attempts <= 5
    /\ (failures = 5 => xpc = "exited")

\* C1 amended: when every attempt of a perform_* call fails with
\* AutoReconnect, at most 6 attempts are made (the first and 5 retries, each
\* retry after one delay); the 6th consecutive failure exits the process with
\* status 1 and no result; a 7th attempt is never made.
C1_SixAttempts ==
    /\ attempts <= RetryLimit + 1
    /\ failures <= RetryLimit + 1
    /\ (failures = RetryLimit + 1 <=> xpc = "exited")
    /\ (xpc = "exited" =>
            /\ attempts = RetryLimit + 1
            /\ delays = RetryLimit
            /\ num_tries = RetryLimit
            /\ xstatus = 1
            /\ ~success
            /\ result = Unbound)

\* Six AutoReconnect errors in a row have ended a perform_count call.
C1_Witness ==
    /\ xpc = "exited"
    /\ op = "count"
    /\ failures = 6
    /\ attempts = 6

\* C2: a call whose driver call fails with AutoReconnect k times, k in 0..4,
\* and then succeeds returns exactly what the successful driver call
\* returned, has slept exactly k times, and raises nothing and does not exit.
C2_RetrySuccess ==
    /\ (failures \in 0..4 => xpc # "exited" /\ xstatus = -1)
    /\ (success /\ failures \in 0..4 =>
            /\ xpc \in {"loop", "returned"}
            /\ attempts = failures + 1
            /\ delays = failures
            /\ slept = RetryDelay * failures
            /\ xexc = "none")
    /\ (xpc = "returned" /\ failures \in 0..4 =>
            /\ success
            /\ result = storeResult
            /\ result[1] = StoreCall(op, hasFilter))

\* perform_distinct has returned the result of its 5th attempt.
C2_Witness ==
    /\ xpc = "returned"
    /\ op = "distinct"
    /\ failures = 4
    /\ attempts = 5
    /\ delays = 4
    /\ result = storeResult

\* C3: an error of the driver call that is not AutoReconnect leaves the
\* perform_* call at once, whatever num_tries is: the call ends raised with
\* that error, with no attempt and no delay after it, no exit and no result.
C3_OtherErrorPropagates ==
    /\ (lastOutcome = "PyMongoError" => xpc = "raised" /\ xexc = "PyMongoError")
    /\ (xpc = "raised" =>
            /\ lastOutcome = "PyMongoError"
            /\ attempts = failures + 1
            /\ delays = failures
            /\ num_tries = failures
            /\ xstatus = -1
            /\ ~success
            /\ result = Unbound)

\* perform_find_one met the error after the retry budget was used up.
C3_Witness ==
    /\ xpc = "raised"
    /\ op = "find_one"
    /\ num_tries = RetryLimit
    /\ attempts = RetryLimit + 1

C25_LoopStep == attempts' = attempts + 1 \/ xpc' # "loop"

\* C25: every call of a perform_* function terminates, even when the store
\* fails with AutoReconnect forever. A call in its loop ends: each pass makes
\* one more attempt or leaves the loop, the attempts of a call are bounded,
\* a call that met AutoReconnect only ends by returning a result or by the
\* exit with status 1, and num_tries never exceeds 5.
C25_CallTerminates ==
    /\ [](num_tries <= RetryLimit /\ attempts <= RetryLimit + 1)
    /\ [][(xpc = "loop" /\ calls' = calls) => C25_LoopStep]_vars
    /\ []((xpc \notin {"idle", "loop"} /\ lastOutcome # "PyMongoError") =>
            \/ xpc = "returned" /\ success /\ result = storeResult
            \/ xpc = "exited" /\ xstatus = 1 /\ failures = RetryLimit + 1)
    /\ (xpc = "loop") ~> (xpc \in {"returned", "exited", "raised"})

\* A call ended by the exit after the store failed on every attempt.
C25_Witness ==
    /\ xpc = "exited"
    /\ num_tries = RetryLimit
    /\ attempts = RetryLimit + 1
    /\ failures = attempts
    /\ xstatus = 1

\* C26: the retry budget is per call. Every call starts with num_tries 0
\* and no attempt made, whatever the calls before it met; at every moment
\* num_tries counts the AutoReconnect errors this call has retried, and a
\* call exits only after RetryLimit + 1 errors of its own.
C26_BudgetPerCall ==
    /\ [][(calls' # calls) => (num_tries' = 0 /\ attempts' = 0 /\ failures' = 0 /\ xpc' = "loop")]_vars
    /\ [](num_tries = delays /\ delays <= failures /\ failures <= delays + 1)
    /\ [](xpc = "exited" <=> failures = RetryLimit + 1)
    /\ []((xpc = "loop" /\ ~success /\ failures <= RetryLimit) =>
            ENABLED attempt_ok)

\* A second call recovered after five errors of its own, the first call
\* having recovered after five too.
C26_Witness ==
    /\ calls = 2
    /\ pastFailures = RetryLimit
    /\ failures = RetryLimit
    /\ num_tries = RetryLimit
    /\ xpc = "returned"
    /\ success

\* ------------------------------------------------- AzureStorageManager
\* What a call returns when control reaches the end of write_large_file:
\* the body has no return statement after the try block.
ReturnAtEnd == "None"

AzureIdle ==
    /\ apc = "idle"
    /\ afn = "none"
    /\ chunksLeft = 0
    /\ appended = 0
    /\ blobCreated = FALSE
    /\ aret = "unset"
    /\ aexc = "none"
    /\ afailed = FALSE
    /\ acalls = 0

\* A caller enters write_file or write_large_file; the local file of
\* write_large_file has n chunks of chunk_size bytes.
AzureEnter(fn, n) ==
    /\ apc \in {"idle", "returned", "raised"}
    /\ acalls < MaxCalls
    /\ acalls' = acalls + 1
    /\ afn' = fn
    /\ chunksLeft' = n
    /\ appended' = 0
    /\ blobCreated' = FALSE
    /\ aret' = "unset"
    /\ aexc' = "none"
    /\ afailed' = FALSE
    /\ apc' = IF fn = "write_file" THEN "upload" ELSE "create"
    /\ UNCHANGED <<runVars, execVars, ptVars>>

write_file_enter == AzureEnter("write_file", 0)

write_large_file_enter == \E n \in 0..MaxChunks : AzureEnter("write_large_file", n)

\* write_file: BlobClient(...) and upload_blob inside the try; any
\* exception gives False, otherwise True.
upload_blob ==
    /\ apc = "upload"
    /\ apc' = "returned"
    /\ \E ok \in BOOLEAN :
          /\ aret' = IF ok THEN "True" ELSE "False"
          /\ afailed' = ~ok
    /\ UNCHANGED <<afn, chunksLeft, appended, blobCreated, aexc, acalls,
                   runVars, execVars, ptVars>>

\* write_large_file: BlobClient(...) and create_append_blob(), both before
\* the try statement: what they raise leaves the function.
create_append_blob ==
    /\ apc = "create"
    /\ \/ /\ blobCreated' = TRUE
          /\ apc' = "open"
          /\ UNCHANGED <<aexc, afailed>>
       \/ /\ apc' = "raised"
          /\ aexc' = "AzureError"
          /\ afailed' = TRUE
          /\ blobCreated' = blobCreated
    /\ UNCHANGED <<afn, chunksLeft, appended, aret, acalls, runVars, execVars,
                   ptVars>>

\* "with open(local_file_path, 'rb') as stream", inside the try.
open_stream ==
    /\ apc = "open"
    /\ \/ /\ apc' = "loop"
          /\ UNCHANGED <<aret, afailed>>
       \/ /\ apc' = "returned"
          /\ aret' = "False"
          /\ afailed' = TRUE
    /\ UNCHANGED <<afn, chunksLeft, appended, blobCreated, aexc, acalls,
                   runVars, execVars, ptVars>>

\* One pass of "while True": stream.read, then break at the end of the file
\* or append_block.  After the break the function ends.
append_pass ==
    /\ apc = "loop"
    /\ IF chunksLeft = 0
       THEN /\ apc' = "returned"
            /\ aret' = ReturnAtEnd
            /\ UNCHANGED <<chunksLeft, appended, afailed>>
       ELSE \/ /\ appended' = appended + 1
               /\ chunksLeft' = chunksLeft - 1
               /\ UNCHANGED <<apc, aret, afailed>>
            \/ /\ apc' = "returned"
               /\ aret' = "False"
               /\ afailed' = TRUE
               /\ UNCHANGED <<chunksLeft, appended>>
    /\ UNCHANGED <<afn, blobCreated, aexc, acalls, runVars, execVars, ptVars>>

NextAzure ==
    \/ write_file_enter
    \/ write_large_file_enter
    \/ upload_blob
    \/ create_append_blob
    \/ open_stream
    \/ append_pass

\* C27 as stated: write_large_file returns True when every chunk of the
\* local file has been appended, and False, never an exception and never a
\* value that is not a boolean, when creating the blob or appending a chunk
\* fails.
C27_ReturnsBoolean ==
    (afn = "write_large_file" /\ apc \in {"returned", "raised"}) =>
        /\ apc = "returned"
        /\ aexc = "none"
        /\ aret = IF afailed THEN "False" ELSE "True"
        /\ ~afailed => chunksLeft = 0

\* -------------------------------------------------------- PassiveTotal
\* The argument of time.sleep between the two requests.
PtDelay == 5

\* Status codes of a response.
StatusCodes == {200, 429, 500}

\* The two ways the functions build their request: the query passed as
\* params, and the query concatenated to the URL.
FirstForm == "params"

SecondForm == "concatenated"

\* A json.loads outside any try statement.
LoadsUnguarded(valid) == IF valid THEN "res" ELSE "raise"

\* "try: res = json.loads(req.text) except: return None".
Loads(valid) == IF valid THEN "res" ELSE "None"

\* A retry guard that tries again whatever the first status was.
RetriesAlways(code) == TRUE

\* "if req.status_code != 200".
NotOk(code) == code # 200

PtIdle ==
    /\ ppc = "idle"
    /\ pfn = "none"
    /\ requests = <<>>
    /\ pdelays = 0
    /\ pslept = 0
    /\ firstStatus = 0
    /\ status_code = 0
    /\ bodyValid = FALSE
    /\ pret = "unset"
    /\ pexc = "none"
    /\ pcalls = 0

LibIdle == AzureIdle /\ PtIdle

\* A caller enters get_whois or get_organization.
PtEnter(fn) ==
    /\ ppc \in {"idle", "returned", "raised"}
    /\ pcalls < MaxCalls
    /\ pcalls' = pcalls + 1
    /\ pfn' = fn
    /\ ppc' = "first"
    /\ requests' = <<>>
    /\ pdelays' = 0
    /\ pslept' = 0
    /\ firstStatus' = 0
    /\ status_code' = 0
    /\ bodyValid' = FALSE
    /\ pret' = "unset"
    /\ pexc' = "none"
    /\ UNCHANGED <<runVars, execVars, azVars>>

get_whois == PtEnter("get_whois")

get_organization == PtEnter("get_organization")

\* requests.get returns a response, or raises, which nothing here catches.
Response(form, next) ==
    /\ requests' = Append(requests, form)
    /\ \/ /\ \E code \in StatusCodes, valid \in BOOLEAN :
                /\ status_code' = code
                /\ bodyValid' = valid
                /\ firstStatus' = IF requests = <<>> THEN code ELSE firstStatus
                /\ ppc' = next[NotOk(code)]
          /\ UNCHANGED pexc
       \/ /\ ppc' = "raised"
          /\ pexc' = "RequestException"
          /\ UNCHANGED <<status_code, bodyValid, firstStatus>>

\* The first requests.get and the test of its status.
first_request ==
    /\ ppc = "first"
    /\ Response(FirstForm, [b \in BOOLEAN |-> IF b THEN "retry" ELSE "parse"])
    /\ UNCHANGED <<pfn, pdelays, pslept, pret, pcalls, runVars, execVars, azVars>>

\* time.sleep(5), the second requests.get and the test of its status: a
\* second status other than 200 returns None.
second_request ==
    /\ ppc = "retry"
    /\ pdelays' = pdelays + 1
    /\ pslept' = pslept + PtDelay
    /\ Response(SecondForm, [b \in BOOLEAN |-> IF b THEN "returned" ELSE "parse"])
    /\ pret' = IF ppc' = "returned" THEN "None" ELSE pret
    /\ UNCHANGED <<pfn, pcalls, runVars, execVars, azVars>>

\* json.loads(req.text) and the return.
loads ==
    /\ ppc = "parse"
    /\ IF Loads(bodyValid) = "raise"
       THEN /\ ppc' = "raised"
            /\ pexc' = "JSONDecodeError"
            /\ pret' = pret
       ELSE /\ ppc' = "returned"
            /\ pret' = Loads(bodyValid)
            /\ pexc' = pexc
    /\ UNCHANGED <<pfn, requests, pdelays, pslept, firstStatus, status_code,
                   bodyValid, pcalls, runVars, execVars, azVars>>

NextPt ==
    \/ get_whois
    \/ get_organization
    \/ first_request
    \/ second_request
    \/ loads

\* C28: get_whois and get_organization issue at most two HTTP requests per
\* call. The second request is made only when the first status is not 200,
\* after exactly one delay of PtDelay seconds; a second status other than
\* 200 makes the call return None; a body that is not valid JSON makes the
\* call return None, and no exception of json.loads leaves the call.
C28_TwoRequests ==
    /\ Len(requests) <= 2
    /\ pdelays = (IF Len(requests) = 2 THEN 1 ELSE 0)
    /\ pslept = PtDelay * pdelays
    /\ Len(requests) = 2 => firstStatus # 200
    /\ (ppc \in {"parse", "returned"} /\ Len(requests) = 1) => firstStatus = 200
    /\ (ppc = "returned" /\ Len(requests) = 2 /\ status_code # 200) => pret = "None"
    /\ (ppc = "returned" /\ status_code = 200 /\ ~bodyValid) => pret = "None"
    /\ (ppc = "returned" /\ status_code = 200 /\ bodyValid) => pret = "res"
    /\ pexc # "JSONDecodeError"
    /\ ppc = "raised" => pexc = "RequestException"

\* get_organization returned None after a second response with status 200
\* whose body was not valid JSON.
C28_Witness ==
    /\ pfn = "get_organization"
    /\ ppc = "returned"
    /\ requests = <<FirstForm, SecondForm>>
    /\ firstStatus = 500
    /\ status_code = 200
    /\ ~bodyValid
    /\ pdelays = 1
    /\ pret = "None"

\* ---------------------------------------------------------- specifications
\* The mirror run; no perform_* call is made by it.
Init ==
    /\ InitRun
    /\ ExecIdle
    /\ LibIdle
    /\ order = StepOrder
    /\ writesLeft = MaxWrites

Next == NextRun

Spec == Init /\ [][Next]_vars

\* The script run MaxRuns times in a row with one of the flags that select
\* full-replace steps.
InitTwice ==
    /\ Init
    /\ argv \in {{"send_ip_zones"}, {"send_third_party_zones"}, {"send_config"}}

NextTwice == NextRun \/ RunAgain

SpecTwice == InitTwice /\ [][NextTwice]_vars

\* The steps of main: the collections each one mirrors, in its own order.
StepGroups == <<<<"zones">>, <<"ip_zones", "ipv6_zones">>,
                <<"aws_ips", "azure_ips", "akamai_ips", "gcp_ips">>,
                <<"config">>, <<"all_dns">>>>

RECURSIVE Flatten(_, _)
Flatten(p, k) ==
    IF k = 0 THEN <<>> ELSE Flatten(p, k - 1) \o StepGroups[p[k]]

\* The orders of the steps in which the DNS step comes after the zone step.
Orders ==
    {Flatten(p, Len(StepGroups)) :
        p \in {q \in [DOMAIN StepGroups -> DOMAIN StepGroups] :
                  /\ \A i, j \in DOMAIN StepGroups : i # j => q[i] # q[j]
                  /\ \A i, j \in DOMAIN StepGroups :
                        (q[i] = 1 /\ q[j] = Len(StepGroups)) => i < j}}

\* A run with every step selected whose main calls the steps in any of
\* these orders, next to collectors that write the primary once at most.
InitPerm ==
    /\ InitRun
    /\ ExecIdle
    /\ LibIdle
    /\ argv = {}
    /\ order \in Orders
    /\ writesLeft = 1

SpecPerm == InitPerm /\ [][Next]_vars

\* A caller of the perform_* functions; no mirror run goes on.
InitExec ==
    /\ ExecIdle
    /\ LibIdle
    /\ argv = {}
    /\ pc = "NotStarted"
    /\ phase = "find"
    /\ cursor = <<>>
    /\ zone_list = <<>>
    /\ zidx = 1
    /\ primary = PrimaryStore(<<>>, 0)
    /\ remote = RemoteStore(0)
    /\ remote0 = remote
    /\ exc = "none"
    /\ failedOp = "none"
    /\ exitStatus = -1
    /\ nextOid = 100
    /\ fetched = <<>>
    /\ doneZones = <<>>
    /\ nReads = [c \in Colls |-> 0]
    /\ nWrites = [c \in Colls |-> 0]
    /\ jobStarts = 0
    /\ jobCompletes = 0
    /\ writesLeft = 0
    /\ done = {}
    /\ dirty = {}
    /\ m_connection = "None"
    /\ configRead = "unread"
    /\ log = <<>>
    /\ mirrored = <<>>
    /\ written = {}
    /\ runNo = 1
    /\ remoteAfter1 = remote
    /\ order = StepOrder

SpecExec == InitExec /\ [][NextExec]_vars

\* A caller of AzureStorageManager.write_file and write_large_file.
SpecAzure == InitExec /\ [][NextAzure]_vars

\* A caller of PassiveTotal.get_whois and get_organization.
SpecPt == InitExec /\ [][NextPt]_vars

\* The same caller, with the interpreter carrying on every call it has
\* begun: a pass of the while loop, or the return, is taken when it can be.
SpecExecFair ==
    SpecExec /\ WF_vars(attempt_ok \/ attempt_raises \/ perform_return)

====
